---- MODULE Spec2Model ----
(***************************************************************************)
(* A model of ChefGPT's retrieval core: the hybrid retriever with its RRF  *)
(* fusion (rag_modules/retrieval_optimization.py), the parent resolver     *)
(* (rag_modules/data_preparation.py), the query router                     *)
(* (rag_modules/generation_integration.py), the per-query control flow of  *)
(* RAGSystem.ask_question and the startup of RAGSystem.run_interactive     *)
(* (main.py, rag_modules/index_construction.py).                           *)
(*                                                                         *)
(* A langchain Document is a record [page_content, metadata].  A string    *)
(* is a sequence of tokens, so that prefixing, trimming and lower-casing   *)
(* are computed and two strings are equal exactly when their token         *)
(* sequences are.                                                          *)
(***************************************************************************)
EXTENDS Integers, Sequences, FiniteSets, TLC

VARIABLES
    \* ---- hybrid retriever (retrieval_optimization.py)
    index_loaded,   \* build_knowledge_base took the load_index branch
    vector_docs,    \* what the dense ranker returned for the query
    BM25_docs,      \* what the sparse ranker returned for the query
    top_k,          \* the top_k argument of the search call
    filters,        \* the filters argument of metadata_filtered_search
    rrf_scores,     \* _rrf_rerank's dict: key -> fused score
    sorted_docs,    \* _rrf_rerank's return value (the whole fused list)
    search_op,      \* "none" | "hybrid_search" | "metadata_filtered_search"
    search_outcome, \* "none" | "returned" | "AttributeError"
    search_result,  \* the list the search call returned
    \* ---- parent resolver (data_preparation.py)
    documents,      \* self.documents: the parent documents of the current load
    child_chunks,   \* the argument of get_parent_document
    parent_docs,    \* what get_parent_document returned
    resolve_outcome, \* "none" | "returned"
    \* ---- query router (generation_integration.py)
    router_reply,   \* the generator's raw reply to the classification prompt
    router_return,  \* what query_router returned, <<>> before the call
    \* ---- the interactive loop (main.py)
    pc,             \* "input" | "router" | "rewrite" | "search" | "chitchat"
                    \* | "generate" | "exited": the call the loop waits for
    n_inputs,       \* number of inputs read so far
    history,        \* run_interactive's history list
    user_input,     \* the stripped input, ask_question's question
    router_type,    \* ask_question's router_type, <<>> before the router
    query,          \* ask_question's query, <<>> before it is set
    relevant_chunks, \* ask_question's relevant_chunks
    relevant_docs,  \* ask_question's relevant_docs
    answer,         \* what ask_question returned; <<>> is None or ""
    calls,          \* the calls ask_question made for the current input
    llm_messages,   \* the messages of the last self.llm.invoke(messages)
    query_error,    \* what the except branch printed for the current input
    \* ---- startup (main.py build_knowledge_base, data_preparation.py,
    \*      index_construction.py, retrieval_optimization.py)
    boot,           \* the step of startup that comes next, "serving" once
                    \* the loop is entered, "fatal" when main() gave up
    boot_failed,    \* the constructions that raised during startup
    heap,           \* the live Document objects: object id -> Document
    created,        \* each live object as it was when it was created
    n_objects,      \* number of Document objects created so far
    document_refs,  \* self.documents, as object ids
    chunk_refs,     \* self.chunks, as object ids
    parent_child_map, \* self.parent_child_map
    n_uuids,        \* number of uuid4() results handed out so far
    split_failed,   \* the documents whose split_text raised
    vectorstore,    \* <<>> when unset, else <<the docstore's documents>>
    vector_retriever, \* the retriever has its vector_retriever attribute
    bm25_retriever  \* <<>> when unset, else <<the documents it indexes>>

searchVars == <<index_loaded, vector_docs, BM25_docs, top_k, filters,
                rrf_scores, sorted_docs, search_op, search_outcome,
                search_result>>

resolveVars == <<documents, child_chunks, parent_docs, resolve_outcome>>

routerVars == <<router_reply, router_return>>

askVars == <<pc, n_inputs, history, user_input, router_type, query,
             relevant_chunks, relevant_docs, answer, calls, llm_messages,
             query_error>>

startupVars == <<boot, boot_failed, heap, created, n_objects, document_refs,
                 chunk_refs, parent_child_map, n_uuids, split_failed,
                 vectorstore, vector_retriever, bm25_retriever>>

vars == <<searchVars, resolveVars, routerVars, askVars, startupVars>>

---------------------------------------------------------------------------
\* Bounds of the model.

\* number of fragments in the corpus the rankers index
NumChunks == 4
\* longest list a ranker returns in the model (the code asks for k = 5)
MaxHits == 2
\* largest top_k a caller passes
MaxTopK == 2
\* longest list of hits handed to get_parent_document
MaxResolveHits == 4
\* longest reply of the generator, in tokens
MaxReplyLen == 3
\* number of inputs the interactive loop reads
MaxQueries == 2
\* number of fragments of the corpus that is being served
NumServeChunks == 1
\* longest list a ranker returns while serving
ServeHits == 1

---------------------------------------------------------------------------
\* Generic sequence helpers (Python list semantics).

Range(s) == {s[i] : i \in DOMAIN s}

\* s[:n] for n >= 0
Take(s, n) == SubSeq(s, 1, IF n < Len(s) THEN n ELSE Len(s))

\* the lists without repetition over S, of length at most n
InjSeqs(S, n) ==
    UNION {{s \in [1..k -> S] : \A i, j \in 1..k : i # j => s[i] # s[j]}
           : k \in 0..n}

\* index of the first element of s satisfying key equality, 0 when none
RECURSIVE FirstIndex(_, _, _)
FirstIndex(s, x, i) ==
    IF i > Len(s) THEN 0
    ELSE IF s[i] = x THEN i
    ELSE FirstIndex(s, x, i + 1)

---------------------------------------------------------------------------
\* The corpus the rankers index: fragment i of the split.  Fragments 1 and 3
\* are two sections of dish "A" with the same text, fragment 2 has that text
\* too but belongs to dish "B", and the last fragment has a text of its own.

dish_of(i) == IF i % 2 = 1 THEN "A" ELSE "B"

body_of(i) == IF i = NumChunks THEN <<"b2">> ELSE <<"b1">>

category_of(i) == IF i % 2 = 1 THEN "meat" ELSE "soup"

\* a fragment as _markdown_header_split and chunk_documents leave it
Chunk(i) ==
    [page_content |-> body_of(i),
     metadata |-> [chunk_id |-> i, parent_id |-> dish_of(i),
                   dish_name |-> dish_of(i), category |-> category_of(i),
                   doc_type |-> "child"]]

\* build_vector_index rewrites the text of every chunk in place
Prefixed(doc) ==
    [doc EXCEPT !.page_content =
        <<"dish:", doc.metadata.dish_name, "\n">> \o doc.page_content]

\* A document of the FAISS docstore: its text was prefixed when the index
\* was built, in this run or in the run that saved it.
DenseDoc(i) == Prefixed(Chunk(i))

\* A document of the BM25 retriever, built from self.chunks: after a fresh
\* build the chunks are the prefixed ones, after load_index they are not.
SparseDoc(i, loaded) == IF loaded THEN Chunk(i) ELSE Prefixed(Chunk(i))

ChunkIds == 1..NumChunks

---------------------------------------------------------------------------
\* _rrf_rerank

\* rrf parameter c
c == 60
vec_weight == 1
bm25_weight == 0

\* Scores are kept as exact multiples of 1/ScoreScale; ScoreScale is the
\* least common multiple of 61..65, the denominators of ranks 0..4.  The
\* floats of the code order and equate these values as the rationals do.
ScoreScale == (c + 1) * 31 * (c + 3) * (c + 4) * (c + 5)

\* weight * 1 / (rank + c + 1)
RankScore(weight, rank) == (weight * ScoreScale) \div (rank + c + 1)

\* hash(doc.page_content): equal strings have equal hashes
Hash(text) == text

\* rrf_scores.get(k, 0)
ScoreGet(scores, k) == IF k \in DOMAIN scores THEN scores[k] ELSE 0

\* one scoring loop: for rank, doc in enumerate(docs), from index i on
RECURSIVE ScoreLoop(_, _, _, _)
ScoreLoop(scores, docs, weight, i) ==
    IF i > Len(docs) THEN scores
    ELSE LET doc_id == Hash(docs[i].page_content)
             score == RankScore(weight, i - 1)
             added == ScoreGet(scores, doc_id) + score
         IN ScoreLoop([k \in DOMAIN scores \cup {doc_id} |->
                          IF k = doc_id THEN added ELSE scores[k]],
                      docs, weight, i + 1)

\* the two loops over vector_docs and BM25_docs
RrfScores(vdocs, bdocs) ==
    ScoreLoop(ScoreLoop(<<>>, vdocs, vec_weight, 1), bdocs, bm25_weight, 1)

\* all_docs.items(): a dict keeps a key at the place of its first
\* insertion and holds the value of its last insertion
RECURSIVE AllDocsItems(_, _, _)
AllDocsItems(items, docs, i) ==
    IF i > Len(docs) THEN items
    ELSE LET k == Hash(docs[i].page_content)
             at == FirstIndex([j \in DOMAIN items |-> items[j][1]], k, 1)
         IN AllDocsItems(IF at = 0 THEN Append(items, <<k, docs[i]>>)
                         ELSE [items EXCEPT ![at] = <<k, docs[i]>>],
                         docs, i + 1)

\* insert x into the sorted list s behind every item whose score is not
\* smaller: sorted(..., reverse=True) is stable
RECURSIVE InsertDesc(_, _, _, _)
InsertDesc(s, x, scores, i) ==
    IF i > Len(s) THEN Append(s, x)
    ELSE IF ScoreGet(scores, s[i][1]) < ScoreGet(scores, x[1])
         THEN SubSeq(s, 1, i - 1) \o <<x>> \o SubSeq(s, i, Len(s))
         ELSE InsertDesc(s, x, scores, i + 1)

RECURSIVE SortedByScore(_, _, _, _)
SortedByScore(done, items, scores, i) ==
    IF i > Len(items) THEN done
    ELSE SortedByScore(InsertDesc(done, items[i], scores, 1),
                       items, scores, i + 1)

\* sorted(all_docs.items(), key=rrf_scores.get, reverse=True), docs only
rrf_rerank(vdocs, bdocs) ==
    LET scores == RrfScores(vdocs, bdocs)
        items == AllDocsItems(<<>>, vdocs \o bdocs, 1)
        sorted == SortedByScore(<<>>, items, scores, 1)
    IN [j \in DOMAIN sorted |-> sorted[j][2]]

\* hybrid_search without the [:top_k] slice
hybrid_search_unsliced(vdocs, bdocs, k) == rrf_rerank(vdocs, bdocs)

\* reranked_docs[:top_k]
hybrid_search(vdocs, bdocs, k) == Take(rrf_rerank(vdocs, bdocs), k)

---------------------------------------------------------------------------
\* The search calls as operations on one query's ranker lists.

\* filter sets a caller passes: a scalar value or a list value per key
FilterSets ==
    {<<>>,
     [category |-> <<"scalar", "meat">>],
     [category |-> <<"list", {"meat", "soup"}>>],
     [category |-> <<"scalar", "soup">>, dish_name |-> <<"list", {"B"}>>]}

\* no search has been made
SearchIdle ==
    /\ index_loaded = FALSE
    /\ vector_docs = <<>>
    /\ BM25_docs = <<>>
    /\ top_k = 0
    /\ filters = <<>>
    /\ rrf_scores = <<>>
    /\ sorted_docs = <<>>
    /\ search_op = "none"
    /\ search_outcome = "none"
    /\ search_result = <<>>

\* the resolver has not been called
ResolveIdle ==
    /\ documents = <<>>
    /\ child_chunks = <<>>
    /\ parent_docs = <<>>
    /\ resolve_outcome = "none"

\* the interactive loop is not running
AskIdle ==
    /\ pc = "off"
    /\ n_inputs = 0
    /\ history = <<>>
    /\ user_input = <<>>
    /\ router_type = <<>>
    /\ query = <<>>
    /\ relevant_chunks = <<>>
    /\ relevant_docs = <<>>
    /\ answer = <<>>
    /\ calls = <<>>
    /\ llm_messages = <<>>
    /\ query_error = <<>>

\* the router has not been called
RouterIdle ==
    /\ router_reply = <<>>
    /\ router_return = <<>>

\* startup is not followed
StartupIdle ==
    /\ boot = "off"
    /\ boot_failed = {}
    /\ heap = <<>>
    /\ created = <<>>
    /\ n_objects = 0
    /\ document_refs = <<>>
    /\ chunk_refs = <<>>
    /\ parent_child_map = <<>>
    /\ n_uuids = 0
    /\ split_failed = {}
    /\ vectorstore = <<>>
    /\ vector_retriever = FALSE
    /\ bm25_retriever = <<>>

\* One query: the two rankers have answered.
InitSearch ==
    /\ StartupIdle
    /\ ResolveIdle
    /\ RouterIdle
    /\ AskIdle
    /\ index_loaded \in BOOLEAN
    /\ vector_docs \in {[j \in DOMAIN s |-> DenseDoc(s[j])]
                        : s \in InjSeqs(ChunkIds, MaxHits)}
    /\ BM25_docs \in {[j \in DOMAIN s |-> SparseDoc(s[j], index_loaded)]
                      : s \in InjSeqs(ChunkIds, MaxHits)}
    /\ top_k = 0
    /\ filters = <<>>
    /\ rrf_scores = <<>>
    /\ sorted_docs = <<>>
    /\ search_op = "none"
    /\ search_outcome = "none"
    /\ search_result = <<>>

\* hybrid_search(query, k)
HybridSearch ==
    /\ search_op = "none"
    /\ \E k \in 0..MaxTopK :
        /\ top_k' = k
        /\ search_result' = hybrid_search(vector_docs, BM25_docs, k)
    /\ rrf_scores' = RrfScores(vector_docs, BM25_docs)
    /\ sorted_docs' = rrf_rerank(vector_docs, BM25_docs)
    /\ search_op' = "hybrid_search"
    /\ search_outcome' = "returned"
    /\ UNCHANGED <<index_loaded, vector_docs, BM25_docs, filters>>
    /\ UNCHANGED <<resolveVars, routerVars, askVars,
                   startupVars>>

\* metadata_filtered_search(query, filters, k): the loop body reads
\* filter.items(), and filter is the builtin, not the filters argument
MetadataFilteredSearch ==
    /\ search_op = "none"
    /\ \E k \in 0..MaxTopK, f \in FilterSets :
        /\ top_k' = k
        /\ filters' = f
        /\ LET original_docs == hybrid_search(vector_docs, BM25_docs, k * 3)
           IN IF original_docs = <<>>
              THEN /\ search_outcome' = "returned"
                   /\ search_result' = <<>>
              ELSE /\ search_outcome' = "AttributeError"
                   /\ search_result' = <<>>
    /\ rrf_scores' = RrfScores(vector_docs, BM25_docs)
    /\ sorted_docs' = rrf_rerank(vector_docs, BM25_docs)
    /\ search_op' = "metadata_filtered_search"
    /\ UNCHANGED <<index_loaded, vector_docs, BM25_docs>>
    /\ UNCHANGED <<resolveVars, routerVars, askVars,
                   startupVars>>

NextSearch == HybridSearch \/ MetadataFilteredSearch

SpecSearch == InitSearch /\ [][NextSearch]_vars

---------------------------------------------------------------------------
\* Claims about the hybrid retriever, properties of SpecSearch.

\* the fused score the code holds for a document
FusedScore(doc) == ScoreGet(rrf_scores, Hash(doc.page_content))

\* the generated ids of the fragments in a list
IdsOf(docs) == {docs[i].metadata.chunk_id : i \in DOMAIN docs}

\* C1: hybrid_search(query, top_k) with top_k >= 0 returns at most top_k
\* fragments, each of them an element of the dense or of the sparse list,
\* in order of non-increasing fused score.
C1_TopKContract ==
    (search_op = "hybrid_search" /\ search_outcome = "returned") =>
        /\ Len(search_result) <= top_k
        /\ \A i \in DOMAIN search_result :
            search_result[i] \in Range(vector_docs) \cup Range(BM25_docs)
        /\ \A i, j \in DOMAIN search_result :
            i < j => FusedScore(search_result[i]) >= FusedScore(search_result[j])

\* C1's case: the fused list is longer than top_k and was cut to two or
\* more fragments with different scores.
C1_Witness ==
    /\ search_op = "hybrid_search"
    /\ search_outcome = "returned"
    /\ Len(sorted_docs) > top_k
    /\ Len(search_result) = top_k
    /\ top_k >= 2
    /\ FusedScore(search_result[1]) > FusedScore(search_result[2])

\* C2: a fragment that is in the dense list only, at 0-based rank r, has
\* the fused score vec_weight / (r + 61), and a fragment that is in the
\* sparse list only has the sparse contribution alone (the dense ranker
\* contributes 0), whatever the two lists hold.
C2_SingleRankerScore ==
    (search_op = "hybrid_search") =>
        /\ \A i \in DOMAIN vector_docs :
            vector_docs[i].metadata.chunk_id \notin IdsOf(BM25_docs) =>
                FusedScore(vector_docs[i]) = RankScore(vec_weight, i - 1)
        /\ \A i \in DOMAIN BM25_docs :
            BM25_docs[i].metadata.chunk_id \notin IdsOf(vector_docs) =>
                FusedScore(BM25_docs[i]) = RankScore(bm25_weight, i - 1)

\* C3: two distinct fragments with the same text that occur in the ranker
\* lists are both entries of the fused result, at different places.
C3_IdentityById ==
    (search_op = "hybrid_search") =>
        \A d1, d2 \in Range(vector_docs) \cup Range(BM25_docs) :
            (d1.metadata.chunk_id # d2.metadata.chunk_id
             /\ d1.page_content = d2.page_content) =>
                \E i, j \in DOMAIN sorted_docs :
                    /\ i # j
                    /\ sorted_docs[i].metadata.chunk_id = d1.metadata.chunk_id
                    /\ sorted_docs[j].metadata.chunk_id = d2.metadata.chunk_id

\* place of fragment id in the dense list followed by the sparse list
PlaceOf(id) ==
    LET both == vector_docs \o BM25_docs
    IN FirstIndex([j \in DOMAIN both |-> both[j].metadata.chunk_id], id, 1)

\* C4: the fused result holds every fragment of either list once, by
\* descending fused score, equal scores by place in the dense list and then
\* in the sparse list; hybrid_search returns its first top_k entries.
C4_FusedOrder ==
    (search_op = "hybrid_search") =>
        /\ IdsOf(sorted_docs) = IdsOf(vector_docs) \cup IdsOf(BM25_docs)
        /\ Len(sorted_docs) = Cardinality(IdsOf(sorted_docs))
        /\ \A i, j \in DOMAIN sorted_docs :
            i < j =>
                \/ FusedScore(sorted_docs[i]) > FusedScore(sorted_docs[j])
                \/ /\ FusedScore(sorted_docs[i]) = FusedScore(sorted_docs[j])
                   /\ PlaceOf(sorted_docs[i].metadata.chunk_id)
                        < PlaceOf(sorted_docs[j].metadata.chunk_id)
        /\ search_result = Take(sorted_docs, top_k)

\* C18: a fragment that both rankers returned is one entry of the fused
\* result, and its fused score is the sum of its dense and its sparse
\* contribution, with a freshly built index and with a loaded one.
C18_SharedFragmentOnce ==
    (search_op = "hybrid_search") =>
        \A i \in DOMAIN vector_docs, j \in DOMAIN BM25_docs :
            (vector_docs[i].metadata.chunk_id = BM25_docs[j].metadata.chunk_id)
            =>
            LET id == vector_docs[i].metadata.chunk_id
                at == {n \in DOMAIN sorted_docs :
                          sorted_docs[n].metadata.chunk_id = id}
            IN /\ Cardinality(at) = 1
               /\ \A n \in at :
                    FusedScore(sorted_docs[n])
                        = RankScore(vec_weight, i - 1)
                          + RankScore(bm25_weight, j - 1)

\* whether a document's metadata matches every filter
MatchesAll(doc, f) ==
    \A k \in DOMAIN f :
        IF f[k][1] = "list" THEN doc.metadata[k] \in f[k][2]
        ELSE doc.metadata[k] = f[k][2]

\* the first n matching documents of docs, in order
FirstMatches(docs, f, n) ==
    LET Test(d) == MatchesAll(d, f)
    IN Take(SelectSeq(docs, Test), n)

\* C5: metadata_filtered_search returns the first top_k documents of
\* hybrid_search(query, 3 * top_k) whose metadata matches every filter.
C5_FilteredSearch ==
    (search_op = "metadata_filtered_search") =>
        /\ search_outcome = "returned"
        /\ search_result =
            FirstMatches(Take(sorted_docs, 3 * top_k), filters, top_k)

---------------------------------------------------------------------------
\* get_parent_document

\* md5 of the path of a source file; a file may be missing from the current
\* load (an index saved by an earlier run still names it)
ParentIds == {"A", "B", "C"}

\* a parent document as load_documents creates it
ParentDoc(p) ==
    [page_content |-> <<"recipe", p>>,
     metadata |-> [parent_id |-> p, dish_name |-> p, category |-> "other",
                   doc_type |-> "parent"]]

\* a hit: fragment i, owned by document p
HitDoc(i, p) ==
    [page_content |-> <<"section", i>>,
     metadata |-> [chunk_id |-> i, parent_id |-> p, dish_name |-> p,
                   doc_type |-> "child"]]

\* the first loop: parent_relevance as a function, and the order in which
\* its keys were inserted (a dict iterates in insertion order); every
\* fragment carries a parent_id, so the "if parent_id" guard always passes
RECURSIVE RelevanceLoop(_, _, _)
RelevanceLoop(relevance, chunks, i) ==
    IF i > Len(chunks) THEN relevance
    ELSE LET parent_id == chunks[i].metadata.parent_id
         IN RelevanceLoop([k \in DOMAIN relevance \cup {parent_id} |->
                              IF k = parent_id
                              THEN ScoreGet(relevance, parent_id) + 1
                              ELSE relevance[k]],
                          chunks, i + 1)

RECURSIVE RelevanceKeys(_, _, _)
RelevanceKeys(keys, chunks, i) ==
    IF i > Len(chunks) THEN keys
    ELSE LET parent_id == chunks[i].metadata.parent_id
         IN RelevanceKeys(IF FirstIndex([j \in DOMAIN keys |-> keys[j][1]],
                                        parent_id, 1) = 0
                          THEN Append(keys, <<parent_id>>)
                          ELSE keys,
                          chunks, i + 1)

\* for doc in self.documents: the first document with that parent_id
FindParent(docs, parent_id) ==
    FirstIndex([j \in DOMAIN docs |-> docs[j].metadata.parent_id],
               parent_id, 1)

\* sorted(parent_relevance.keys(), key=parent_relevance[x], reverse=True)
\* in first-seen order instead
sorted_parent_ids_unsorted(chunks) == RelevanceKeys(<<>>, chunks, 1)

\* sorted(parent_relevance.keys(), key=parent_relevance[x], reverse=True)
sorted_parent_ids(chunks) ==
    SortedByScore(<<>>, RelevanceKeys(<<>>, chunks, 1),
                  RelevanceLoop(<<>>, chunks, 1), 1)

\* the last loop: the documents of the sorted ids that were found
RECURSIVE CollectParents(_, _, _, _)
CollectParents(out, ids, docs, i) ==
    IF i > Len(ids) THEN out
    ELSE LET at == FindParent(docs, ids[i][1])
         IN CollectParents(IF at = 0 THEN out ELSE Append(out, docs[at]),
                           ids, docs, i + 1)

get_parent_document(docs, chunks) ==
    CollectParents(<<>>, sorted_parent_ids(chunks), docs, 1)

\* One call of the resolver: a load of one to three documents and a list of
\* hits, each owned by a document that is or is not in the load.
InitResolve ==
    /\ StartupIdle
    /\ SearchIdle
    /\ RouterIdle
    /\ AskIdle
    /\ documents \in {[j \in DOMAIN s |-> ParentDoc(s[j])]
                      : s \in InjSeqs(ParentIds, Cardinality(ParentIds))
                              \ {<<>>}}
    /\ child_chunks \in {[j \in DOMAIN s |-> HitDoc(j, s[j])]
                         : s \in UNION {[1..n -> ParentIds]
                                        : n \in 0..MaxResolveHits}}
    /\ parent_docs = <<>>
    /\ resolve_outcome = "none"

GetParentDocument ==
    /\ resolve_outcome = "none"
    /\ parent_docs' = get_parent_document(documents, child_chunks)
    /\ resolve_outcome' = "returned"
    /\ UNCHANGED <<documents, child_chunks>>
    /\ UNCHANGED <<searchVars, routerVars, askVars,
                   startupVars>>

NextResolve == GetParentDocument

SpecResolve == InitResolve /\ [][NextResolve]_vars

---------------------------------------------------------------------------
\* Claims about the parent resolver, properties of SpecResolve.

\* number of hits that reference document p
HitCount(p) ==
    Cardinality({k \in DOMAIN child_chunks :
                    child_chunks[k].metadata.parent_id = p})

\* place of the first hit that references document p
FirstSeen(p) ==
    FirstIndex([k \in DOMAIN child_chunks |->
                   child_chunks[k].metadata.parent_id], p, 1)

LoadedIds == {documents[j].metadata.parent_id : j \in DOMAIN documents}

HitIds == {child_chunks[k].metadata.parent_id : k \in DOMAIN child_chunks}

\* C6: get_parent_document returns, without raising, every owning document
\* of the hits that is in the current load, once, by descending number of
\* hits and among equal numbers in first-seen order; owners that are not
\* loaded are left out.  Two hits of A and one of B give [A, B].
C6_ResolveOrder ==
    (resolve_outcome # "none") =>
        /\ resolve_outcome = "returned"
        /\ \A j \in DOMAIN parent_docs : parent_docs[j] \in Range(documents)
        /\ {parent_docs[j].metadata.parent_id : j \in DOMAIN parent_docs}
             = HitIds \cap LoadedIds
        /\ Len(parent_docs) = Cardinality(HitIds \cap LoadedIds)
        /\ \A i, j \in DOMAIN parent_docs :
            i < j =>
                LET a == parent_docs[i].metadata.parent_id
                    b == parent_docs[j].metadata.parent_id
                IN \/ HitCount(a) > HitCount(b)
                   \/ HitCount(a) = HitCount(b) /\ FirstSeen(a) < FirstSeen(b)
        /\ (/\ Len(child_chunks) = 3
            /\ HitCount("A") = 2
            /\ HitCount("B") = 1
            /\ {"A", "B"} \subseteq LoadedIds)
               => parent_docs = <<ParentDoc("A"), ParentDoc("B")>>

\* C6's case: two documents are returned, the one with more hits first
\* although it was seen later, and another owner is missing from the load.
C6_Witness ==
    /\ resolve_outcome = "returned"
    /\ Len(parent_docs) >= 2
    /\ HitCount(parent_docs[1].metadata.parent_id)
         > HitCount(parent_docs[2].metadata.parent_id)
    /\ FirstSeen(parent_docs[1].metadata.parent_id)
         > FirstSeen(parent_docs[2].metadata.parent_id)
    /\ HitIds \ LoadedIds # {}

---------------------------------------------------------------------------
\* Strings.  A string is the sequence of its tokens: a token is a run of
\* whitespace or a word, and no two words of the model join to another.

Whitespace == {" ", "\n"}

\* str.lower() on one token
LowerToken(t) ==
    CASE t = "List" -> "list"
      [] t = "GENERAL" -> "general"
      [] t = "Chitchat" -> "chitchat"
      [] t = "KYY" -> "kyy"
      [] t = "Exit" -> "exit"
      [] OTHER -> t

\* str.lower()
Lower(str) == [i \in DOMAIN str |-> LowerToken(str[i])]

RECURSIVE LStrip(_)
LStrip(str) ==
    IF str # <<>> /\ Head(str) \in Whitespace THEN LStrip(Tail(str)) ELSE str

RECURSIVE RStrip(_)
RStrip(str) ==
    IF str # <<>> /\ str[Len(str)] \in Whitespace
    THEN RStrip(SubSeq(str, 1, Len(str) - 1))
    ELSE str

\* str.strip()
Strip(str) == RStrip(LStrip(str))

---------------------------------------------------------------------------
\* query_router

ValidRoutes == {<<"list">>, <<"detail">>, <<"general">>, <<"chitchat">>}

\* query_router without .lower()
query_router_no_lower(reply) ==
    LET response == Strip(reply)
    IN IF response \in ValidRoutes THEN response ELSE <<"general">>

\* response = chain.invoke(...).strip().lower() and the validity check
query_router(reply) ==
    LET response == Lower(Strip(reply))
    IN IF response \in ValidRoutes THEN response ELSE <<"general">>

\* what the generator may answer to the classification prompt
ReplyTokens ==
    Whitespace \cup {"list", "List", "detail", "GENERAL", "chitchat",
                     "Chitchat", "'list'", "other"}

Replies == UNION {[1..n -> ReplyTokens] : n \in 0..MaxReplyLen}

\* One classification: the generator has replied.
InitRouter ==
    /\ StartupIdle
    /\ SearchIdle
    /\ ResolveIdle
    /\ AskIdle
    /\ router_reply \in Replies
    /\ router_return = <<>>

QueryRouter ==
    /\ router_return = <<>>
    /\ router_return' = query_router(router_reply)
    /\ UNCHANGED <<router_reply, searchVars, resolveVars, askVars,
                   startupVars>>

NextRouter == QueryRouter

SpecRouter == InitRouter /\ [][NextRouter]_vars

---------------------------------------------------------------------------
\* Claims about the router, properties of SpecRouter.

\* the reply is label l, in any case, with whitespace around it only
IsLabelReply(reply, l) ==
    \E i \in DOMAIN reply :
        /\ LowerToken(reply[i]) = l
        /\ \A j \in DOMAIN reply : j # i => reply[j] \in Whitespace

\* C7: for every textual reply query_router returns one of the four
\* intents: the label the trimmed, lower-cased reply spells when it spells
\* one, and general for any other reply.
C7_RouterTotal ==
    (router_return # <<>>) =>
        /\ router_return \in ValidRoutes
        /\ \A l \in {"list", "detail", "general", "chitchat"} :
            IsLabelReply(router_reply, l) => router_return = <<l>>
        /\ (\A l \in {"list", "detail", "general", "chitchat"} :
                ~IsLabelReply(router_reply, l))
             => router_return = <<"general">>

\* C7's case: a reply in capitals with whitespace around it was read as
\* its label, which is not general.
C7_Witness ==
    /\ router_return = <<"chitchat">>
    /\ Len(router_reply) = 3
    /\ router_reply[2] = "Chitchat"

---------------------------------------------------------------------------
\* Answer generation (generation_integration.py)

history_window_size == 8

\* max_length of _build_context
max_length == 2000

\* history[-n:]
LastN(s, n) == IF Len(s) <= n THEN s ELSE SubSeq(s, Len(s) - n + 1, Len(s))

\* a history entry {'role': ..., 'content': ...}
Msg(role, content) == [role |-> role, content |-> content]

SystemMessage(content) == [type |-> "system", content |-> content]
HumanMessage(content) == [type |-> "human", content |-> content]
AIMessage(content) == [type |-> "ai", content |-> content]

\* the loop over history[-self.history_window_size:]; None and [] are both
\* false in "if history", and both are <<>> here
RECURSIVE HistoryMessages(_)
HistoryMessages(h) ==
    IF h = <<>> THEN <<>>
    ELSE (IF Head(h).role = "user" THEN <<HumanMessage(Head(h).content)>>
          ELSE IF Head(h).role = "assistant"
               THEN <<AIMessage(Head(h).content)>>
               ELSE <<>>)
         \o HistoryMessages(Tail(h))

\* the messages generate_chitchat_answer(query, context, history) sends
generate_chitchat_messages(q, context, h) ==
    <<SystemMessage(<<"friendly food assistant">>)>>
    \o HistoryMessages(LastN(h, history_window_size))
    \o <<HumanMessage(q)>>

\* _build_context: one block per document until max_length is exceeded
RECURSIVE BuildContextLoop(_, _, _, _)
BuildContextLoop(parts, context, i, current_length) ==
    IF i > Len(context) THEN parts
    ELSE LET doc == context[i]
             doc_context == <<"recipe", i, doc.metadata.dish_name,
                              "category", doc.metadata.category>>
                            \o doc.page_content
         IN IF current_length + Len(doc_context) > max_length THEN parts
            ELSE BuildContextLoop(parts \o doc_context, context, i + 1,
                                  current_length + Len(doc_context))

build_context(context) ==
    IF context = <<>> THEN <<"no context">>
    ELSE <<"=====">> \o BuildContextLoop(<<>>, context, 1, 0)

\* the messages generate_detail_answer and generate_general_answer send
generate_answer_messages(system_prompt, q, context, h) ==
    <<SystemMessage(system_prompt)>>
    \o HistoryMessages(LastN(h, history_window_size))
    \o <<HumanMessage(<<"question:">> \o q \o <<"recipes:">>
                      \o build_context(context))>>

\* the dish names of the context, each once, in order
RECURSIVE Dishes(_, _, _)
Dishes(dishes, context, i) ==
    IF i > Len(context) THEN dishes
    ELSE LET dish_name == context[i].metadata.dish_name
         IN Dishes(IF FirstIndex(dishes, dish_name, 1) = 0
                   THEN Append(dishes, dish_name) ELSE dishes,
                   context, i + 1)

\* generate_list_answer: built from the dish names, no generator call
generate_list_answer(q, context) ==
    LET dishes == Dishes(<<>>, context, 1)
    IN IF context = <<>> THEN <<"sorry, no recipe found">>
       ELSE IF Len(dishes) = 1 THEN <<"recommended:", dishes[1]>>
       ELSE IF Len(dishes) <= 3 THEN <<"recommended:">> \o dishes
       ELSE <<"recommended:">> \o SubSeq(dishes, 1, 3)
            \o <<"more:", Len(dishes) - 3>>

---------------------------------------------------------------------------
\* The interactive loop of RAGSystem.run_interactive and ask_question.

\* top_k default of hybrid_search
default_top_k == 3

\* the ASCII exit words; the Chinese one is not among the model's inputs
ExitWords == {<<"exit">>, <<"quit">>}

\* what the user types
RawInputs == {<<" ", "KYY">>, <<"hello">>, <<"q1", " ">>, <<"Exit">>}

\* what the generator answers to the classification prompt while serving:
\* the replies of at most one token
ShortReplies == {<<>>} \cup {<<t>> : t \in ReplyTokens}

\* what the generator answers to the rewrite prompt for question q
RewriteReplies(q) == {q, <<" ", "rewritten q", "\n">>, <<>>}

\* response.content of self.llm.invoke(messages)
LlmAnswers == {<<"an answer">>, <<>>}

\* the corpus being served: its parent documents and its fragments
ServeChunkIds == 1..NumServeChunks

ServeDocuments == <<ParentDoc("A"), ParentDoc("B")>>

\* a record of one call ask_question made
Call(fn, args, ret) == [fn |-> fn, args |-> args, ret |-> ret]

\* The loop is entered: the knowledge base is built, the history is empty.
InitAsk ==
    /\ StartupIdle
    /\ index_loaded \in BOOLEAN
    /\ vector_docs = <<>>
    /\ BM25_docs = <<>>
    /\ top_k = 0
    /\ filters = <<>>
    /\ rrf_scores = <<>>
    /\ sorted_docs = <<>>
    /\ search_op = "none"
    /\ search_outcome = "none"
    /\ search_result = <<>>
    /\ documents = ServeDocuments
    /\ child_chunks = <<>>
    /\ parent_docs = <<>>
    /\ resolve_outcome = "none"
    /\ RouterIdle
    /\ pc = "input"
    /\ n_inputs = 0
    /\ history = <<>>
    /\ user_input = <<>>
    /\ router_type = <<>>
    /\ query = <<>>
    /\ relevant_chunks = <<>>
    /\ relevant_docs = <<>>
    /\ answer = <<>>
    /\ calls = <<>>
    /\ llm_messages = <<>>
    /\ query_error = <<>>

\* run_interactive after ask_question returned ans, without the "if not
\* answer: continue" test
RecordAnswerAlways(ans) ==
    /\ answer' = ans
    /\ history' = history \o <<Msg("user", user_input),
                                Msg("assistant", ans)>>
    /\ pc' = "input"

\* run_interactive after ask_question returned ans: an answer that is None
\* or empty is skipped, any other is appended to the history with its input
RecordAnswer(ans) ==
    /\ answer' = ans
    /\ history' = IF ans = <<>> THEN history
                  ELSE history \o <<Msg("user", user_input),
                                    Msg("assistant", ans)>>
    /\ pc' = "input"

\* input(), the exit words, and ask_question up to the router call
ReadInput ==
    /\ pc = "input"
    /\ n_inputs < MaxQueries
    /\ n_inputs' = n_inputs + 1
    /\ \E raw \in RawInputs :
        LET stripped == Strip(raw)
        IN /\ user_input' = stripped
           /\ IF Lower(stripped) \in ExitWords THEN pc' = "exited"
              ELSE IF Lower(Strip(stripped)) = <<"kyy">> THEN pc' = "input"
              ELSE pc' = "router"
    /\ router_type' = <<>>
    /\ query' = <<>>
    /\ relevant_chunks' = <<>>
    /\ relevant_docs' = <<>>
    /\ answer' = <<>>
    /\ calls' = <<>>
    /\ llm_messages' = <<>>
    /\ query_error' = <<>>
    /\ UNCHANGED <<history, searchVars, resolveVars, routerVars,
                   startupVars>>

\* where ask_question goes after query_router returned rt, sending every
\* intent through the rewrite
route_always_rewrite(rt) == "rewrite"

\* where ask_question goes after query_router returned rt
route(rt) ==
    IF rt = <<"chitchat">> THEN "chitchat"
    ELSE IF rt = <<"list">> THEN "search"
    ELSE "rewrite"

\* query_router replies; ask_question branches on the intent
RouteQuery ==
    /\ pc = "router"
    /\ \E reply \in ShortReplies :
        LET rt == query_router(reply)
        IN /\ router_type' = rt
           /\ calls' = Append(calls, Call("query_router", <<user_input>>, rt))
           /\ pc' = route(rt)
           /\ query' = IF route(rt) = "search" THEN user_input ELSE query
    /\ UNCHANGED <<n_inputs, history, user_input, relevant_chunks,
                   relevant_docs, answer, llm_messages, query_error,
                   searchVars, resolveVars, routerVars,
                   startupVars>>

\* query_rewrite: the chain's reply, stripped, is returned as it is
query_rewrite(reply) == Strip(reply)

\* query_rewrite(question, history) replies
RewriteQuery ==
    /\ pc = "rewrite"
    /\ \E reply \in RewriteReplies(user_input) :
        LET response == query_rewrite(reply)
        IN /\ query' = response
           /\ calls' = Append(calls, Call("query_rewrite",
                                          <<user_input, history>>, response))
    /\ pc' = "search"
    /\ UNCHANGED <<n_inputs, history, user_input, router_type,
                   relevant_chunks, relevant_docs, answer, llm_messages,
                   query_error, searchVars, resolveVars, routerVars,
                   startupVars>>

\* the argument ask_question hands to hybrid_search, were it the question
search_argument_question == user_input

\* the argument ask_question hands to hybrid_search
search_argument == query

\* hybrid_search(query) and get_parent_document; a list answer is built
\* at once, the other intents go on to the generator
Retrieve ==
    /\ pc = "search"
    /\ \E v \in InjSeqs(ServeChunkIds, ServeHits),
          b \in InjSeqs(ServeChunkIds, ServeHits) :
        LET vdocs == [j \in DOMAIN v |-> DenseDoc(v[j])]
            bdocs == [j \in DOMAIN b |-> SparseDoc(b[j], index_loaded)]
            chunks == hybrid_search(vdocs, bdocs, default_top_k)
            docs == get_parent_document(documents, chunks)
            found == <<Call("hybrid_search", <<search_argument>>, chunks),
                       Call("get_parent_document", <<chunks>>, docs)>>
        IN /\ relevant_chunks' = chunks
           /\ relevant_docs' = docs
           /\ IF router_type = <<"list">>
              THEN LET ans == generate_list_answer(query, docs)
                   IN /\ calls' = calls \o found
                                  \o <<Call("generate_list_answer",
                                            <<query, docs>>, ans)>>
                      /\ RecordAnswer(ans)
              ELSE /\ calls' = calls \o found
                   /\ pc' = "generate"
                   /\ UNCHANGED <<answer, history>>
    /\ UNCHANGED <<n_inputs, user_input, router_type, query, llm_messages,
                   query_error, searchVars, resolveVars, routerVars,
                   startupVars>>

\* generate_chitchat_answer(question, history): the second positional
\* parameter is context, so the history parameter keeps its default None
GenerateChitchat ==
    /\ pc = "chitchat"
    /\ llm_messages' = generate_chitchat_messages(user_input, history, <<>>)
    /\ \E content \in LlmAnswers :
        /\ calls' = Append(calls, Call("generate_chitchat_answer",
                                       <<user_input, history>>, content))
        /\ RecordAnswer(content)
    /\ UNCHANGED <<n_inputs, user_input, router_type, query,
                   relevant_chunks, relevant_docs, query_error,
                   searchVars, resolveVars, routerVars,
                   startupVars>>

\* generate_detail_answer or generate_general_answer
GenerateAnswer ==
    /\ pc = "generate"
    /\ LET detail == router_type = <<"detail">>
           fn == IF detail THEN "generate_detail_answer"
                 ELSE "generate_general_answer"
           prompt == IF detail THEN <<"cooking teacher">>
                     ELSE <<"cooking assistant">>
       IN /\ llm_messages' = generate_answer_messages(prompt, query,
                                                      relevant_docs, history)
          /\ \E content \in LlmAnswers :
              /\ calls' = Append(calls, Call(fn, <<query, relevant_docs,
                                                   history>>, content))
              /\ RecordAnswer(content)
    /\ UNCHANGED <<n_inputs, user_input, router_type, query,
                   relevant_chunks, relevant_docs, query_error,
                   searchVars, resolveVars, routerVars,
                   startupVars>>

\* the call the loop waits for raises, and "except Exception" prints the
\* reason and leaves the loop
QueryFailsBreaks ==
    /\ pc \in {"router", "rewrite", "search", "chitchat", "generate"}
    /\ query_error' = <<"error while processing:", pc>>
    /\ pc' = "exited"
    /\ UNCHANGED <<n_inputs, history, user_input, router_type, query,
                   relevant_chunks, relevant_docs, answer, calls,
                   llm_messages, searchVars, resolveVars, routerVars,
                   startupVars>>

\* the call the loop waits for raises: "except Exception" prints the
\* reason and the loop goes on
QueryFails ==
    /\ pc \in {"router", "rewrite", "search", "chitchat", "generate"}
    /\ query_error' = <<"error while processing:", pc>>
    /\ pc' = "input"
    /\ UNCHANGED <<n_inputs, history, user_input, router_type, query,
                   relevant_chunks, relevant_docs, answer, calls,
                   llm_messages, searchVars, resolveVars, routerVars,
                   startupVars>>

\* Ctrl-C anywhere in the loop body: break; ask_question's locals are gone
KeyboardInterrupt ==
    /\ pc \notin {"exited", "off"}
    /\ pc' = "exited"
    /\ user_input' = <<>>
    /\ router_type' = <<>>
    /\ query' = <<>>
    /\ relevant_chunks' = <<>>
    /\ relevant_docs' = <<>>
    /\ answer' = <<>>
    /\ calls' = <<>>
    /\ llm_messages' = <<>>
    /\ query_error' = <<>>
    /\ UNCHANGED <<n_inputs, history, searchVars, resolveVars, routerVars,
                   startupVars>>

Next ==
    \/ ReadInput
    \/ RouteQuery
    \/ RewriteQuery
    \/ Retrieve
    \/ GenerateChitchat
    \/ GenerateAnswer
    \/ QueryFails
    \/ KeyboardInterrupt

Spec == InitAsk /\ [][Next]_vars

---------------------------------------------------------------------------
\* Claims about ask_question, properties of Spec.

RetrievalCalls == {"query_rewrite", "hybrid_search", "get_parent_document"}

\* C8: for a query classified as chitchat ask_question makes no rewrite,
\* no hybrid search and no parent resolution: the one call after the
\* classification is the generator's, and its answer is what is returned.
C8_ChitchatSkipsRetrieval ==
    (router_type = <<"chitchat">>) =>
        /\ \A i \in DOMAIN calls : calls[i].fn \notin RetrievalCalls
        /\ relevant_chunks = <<>>
        /\ relevant_docs = <<>>
        /\ Len(calls) <= 2
        /\ calls[1].fn = "query_router"
        /\ Len(calls) = 2 =>
            /\ calls[2].fn = "generate_chitchat_answer"
            /\ answer = calls[2].ret

\* C8's case: a chitchat query was answered by the generator.
C8_Witness ==
    /\ router_type = <<"chitchat">>
    /\ pc = "input"
    /\ Len(calls) = 2
    /\ answer = <<"an answer">>
    /\ history # <<>>

\* C9: for a chitchat query asked with a non-empty history, the messages
\* handed to the generator end with the last history_window_size history
\* messages followed by the query.
C9_ChitchatHistory ==
    (/\ router_type = <<"chitchat">>
     /\ Len(calls) = 2
     /\ calls[2].args[2] # <<>>) =>
        LET recent == LastN(calls[2].args[2], history_window_size)
            want == HistoryMessages(recent) \o <<HumanMessage(user_input)>>
            n == Len(llm_messages)
        IN /\ n >= Len(want)
           /\ SubSeq(llm_messages, n - Len(want) + 1, n) = want

\* C10: hybrid_search gets the raw question for the list intent, with no
\* query_rewrite call; for detail and general query_rewrite(question,
\* history) is the call before hybrid_search and its result is the string
\* hybrid_search gets.
C10_SearchArgument ==
    \A i \in DOMAIN calls :
        (calls[i].fn = "hybrid_search") =>
            IF router_type = <<"list">>
            THEN /\ calls[i].args = <<user_input>>
                 /\ \A j \in DOMAIN calls : calls[j].fn # "query_rewrite"
            ELSE /\ router_type \in {<<"detail">>, <<"general">>}
                 /\ i = 3
                 /\ calls[1].fn = "query_router"
                 /\ calls[2].fn = "query_rewrite"
                 /\ calls[2].args[1] = user_input
                 /\ pc = "generate" => calls[2].args[2] = history
                 /\ calls[i].args = <<calls[2].ret>>

\* C10's case: a detail query asked with a history was rewritten to a
\* different string, and the search was made with the rewritten string.
C10_Witness ==
    /\ router_type = <<"detail">>
    /\ pc = "generate"
    /\ history # <<>>
    /\ Len(calls) = 4
    /\ calls[2].ret # user_input
    /\ calls[3].fn = "hybrid_search"
    /\ calls[3].args = <<<<"rewritten q">>>>

\* C11: query_rewrite returns a non-empty string, whatever the query, the
\* history and the generator's reply are.
C11_RewriteNonEmpty ==
    \A i \in DOMAIN calls :
        (calls[i].fn = "query_rewrite") => calls[i].ret # <<>>

\* the steps of ask_question: the loop waits for one of its calls
Processing == {"router", "rewrite", "search", "chitchat", "generate"}

\* C15: when the processing of a query raises (in classification, rewrite,
\* search and resolution, or generation), the reason is printed for the
\* user and the loop is back at its input prompt for the next query, with
\* the count of inputs read as it was.
C15_ErrorReportedLoopContinues ==
    [][(pc \in Processing /\ query_error' # <<>>) =>
          /\ query_error' = <<"error while processing:", pc>>
          /\ pc' = "input"
          /\ n_inputs' = n_inputs
          /\ user_input' = user_input]_vars

\* C15's case: the retrieval of the first query raised after the
\* classification had returned, the reason was printed, and the loop waits
\* for a further input.
C15_Witness ==
    /\ query_error = <<"error while processing:", "search">>
    /\ pc = "input"
    /\ n_inputs < MaxQueries
    /\ Len(calls) >= 1

\* the history is a list of a user message followed by an assistant
\* message, with at most one such pair per input read
HistoryShape ==
    /\ Len(history) % 2 = 0
    /\ Len(history) <= 2 * n_inputs
    /\ \A i \in DOMAIN history :
        history[i].role = IF i % 2 = 1 THEN "user" ELSE "assistant"

\* C19: the history is a list of (user message, assistant answer) pairs.
\* A step in which ask_question returns an answer (a non-empty one: None
\* and the empty string are no answer to run_interactive) appends the pair
\* of the input and that answer; every other step, so every step inside
\* ask_question, a query that raised and the kyy shortcut, leaves the
\* history as it is.
C19_HistoryPairs ==
    /\ []HistoryShape
    /\ [][IF pc \in Processing /\ pc' = "input" /\ answer' # <<>>
          THEN history' = history \o <<Msg("user", user_input),
                                       Msg("assistant", answer')>>
          ELSE history' = history]_vars

\* C19's case: the first query was answered and the second one raised; the
\* history holds the pair of the first query and nothing else.
C19_Witness ==
    /\ n_inputs = 2
    /\ query_error # <<>>
    /\ Len(history) = 2
    /\ history[1].role = "user"
    /\ history[2] = Msg("assistant", <<"an answer">>)

---------------------------------------------------------------------------
\* Loading and splitting the recipes (data_preparation.py).
\*
\* Document objects live in a heap, and self.documents and self.chunks hold
\* object ids: the list of chunks can hold a parent document itself, and a
\* write through one list is then seen through the other.

\* number of markdown files under the data path
MaxFiles == 2

\* The files the data path can hold.  A path is the list of its parts, the
\* last one being the file name without its suffix; a content is the list
\* of the file's headed sections, and the third file is empty.
Files ==
    {[path |-> <<"meat_dish", "A">>, content |-> <<"# A **", "## steps">>],
     [path |-> <<"soup", "B">>, content |-> <<"# B">>],
     [path |-> <<"notes", "C">>, content |-> <<>>]}

\* dict.update: the keys of m2 override those of m1
Update(m1, m2) ==
    [k \in DOMAIN m1 \cup DOMAIN m2 |-> IF k \in DOMAIN m2 THEN m2[k] ELSE m1[k]]

\* hashlib.md5(str(md_file)): one digest per path
Md5(path) == <<"md5">> \o path

\* str(uuid.uuid4()): the n-th result; no two are equal, and none equals a
\* position in a list, which is a number from 0 on
Uuid(n) == 0 - n

\* the dish categories, in the order the dict holds them
category_mapping ==
    <<<<"meat_dish", "meat">>, <<"vegetable_dish", "vegetable">>,
      <<"soup", "soup">>, <<"dessert", "dessert">>,
      <<"breakfast", "breakfast">>, <<"staple", "staple">>,
      <<"aquatic", "aquatic">>, <<"condiment", "condiment">>,
      <<"drink", "drink">>>>

\* the loop over category_mapping.items(), from entry i on
RECURSIVE Category(_, _)
Category(path_parts, i) ==
    IF i > Len(category_mapping) THEN "other"
    ELSE IF category_mapping[i][1] \in Range(path_parts)
         THEN category_mapping[i][2]
         ELSE Category(path_parts, i + 1)

\* the longest run of stars in a section
Stars(section) == IF section = "# A **" THEN 2 ELSE 0

\* the chain of "in content" tests, from five stars down
Difficulty(content) ==
    LET has(n) == \E i \in DOMAIN content : Stars(content[i]) >= n
    IN IF has(5) THEN "very hard"
       ELSE IF has(4) THEN "hard"
       ELSE IF has(3) THEN "medium"
       ELSE IF has(2) THEN "rather easy"
       ELSE IF has(1) THEN "easy"
       ELSE "unknown"

\* _enhance_metadata(doc)
enhance_metadata(doc) ==
    LET path_parts == doc.metadata.source
    IN [doc EXCEPT !.metadata =
           Update(@, [category |-> Category(path_parts, 1),
                      dish_name |-> path_parts[Len(path_parts)],
                      difficulty |-> Difficulty(doc.page_content)])]

\* the Document load_documents makes of one file
LoadedDocument(file) ==
    enhance_metadata(
        [page_content |-> file.content,
         metadata |-> [source |-> file.path, parent_id |-> Md5(file.path),
                       doc_type |-> "parent"]])

\* load_documents over the files rglob yields
load_documents(files) == [j \in DOMAIN files |-> LoadedDocument(files[j])]

\* markdown_splitter.split_text(text) when it returns: one chunk per headed
\* section, so none for an empty text
split_text(text) ==
    [i \in DOMAIN text |->
        [page_content |-> <<text[i]>>, metadata |-> [header |-> text[i]]]]

\* the owner id _markdown_header_split writes into a chunk, were it the
\* document's path
owner_id_source(doc, child_id) == doc.metadata["source"]

\* the owner id _markdown_header_split writes into a chunk of doc
owner_id(doc, child_id) == doc.metadata.parent_id

\* the body of the loop over single_chunks: chunk i of doc, as it is left
ChildChunk(doc, chunk, child_id, i) ==
    [chunk EXCEPT !.metadata =
        Update(Update(Update(@, doc.metadata),
                      [dish_name |-> doc.metadata.dish_name]),
               [chunk_id |-> child_id, parent_id |-> owner_id(doc, child_id),
                doc_type |-> "child", chunk_index |-> i])]

\* the loop of _markdown_header_split over self.documents, from document j
\* on.  st holds the heap, all_chunks, the parent_child_map and the two
\* counters; fails holds the documents whose split_text raises.
RECURSIVE SplitLoop(_, _, _, _)
SplitLoop(st, refs, j, fails) ==
    IF j > Len(refs) THEN st
    ELSE LET doc == st.heap[refs[j]]
             single_chunks == split_text(doc.page_content)
             n == Len(single_chunks)
             ids == [i \in 1..n |-> st.n_objects + i]
             child(i) == ChildChunk(doc, single_chunks[i],
                                    Uuid(st.n_uuids + i), i - 1)
         IN IF refs[j] \in fails
            THEN SplitLoop([st EXCEPT !.all_chunks = Append(@, refs[j])],
                           refs, j + 1, fails)
            ELSE SplitLoop(
                     [heap |-> Update(st.heap,
                                      [o \in Range(ids) |->
                                          child(o - st.n_objects)]),
                      all_chunks |-> st.all_chunks \o ids,
                      map |-> Update(st.map,
                                     [u \in {Uuid(st.n_uuids + i) : i \in 1..n}
                                         |-> doc.metadata["parent_id"]]),
                      n_objects |-> st.n_objects + n,
                      n_uuids |-> st.n_uuids + n],
                     refs, j + 1, fails)

\* _markdown_header_split()
markdown_header_split(fails) ==
    SplitLoop([heap |-> heap, all_chunks |-> <<>>, map |-> parent_child_map,
               n_objects |-> n_objects, n_uuids |-> n_uuids],
              document_refs, 1, fails)

\* chunk_documents after the split: chunk i of the list gets chunk_id i and
\* its chunk_size, written into the object the list holds
number_chunks(h, chunks) ==
    [o \in DOMAIN h |->
        LET at == FirstIndex(chunks, o, 1)
        IN IF at = 0 THEN h[o]
           ELSE [h[o] EXCEPT !.metadata =
                    Update(@, [chunk_id |-> at - 1,
                               chunk_size |-> Len(h[o].page_content)])]]

\* the objects of h that a list of refs holds
Deref(h, refs) == [j \in DOMAIN refs |-> h[refs[j]]]

\* h without the objects no list holds any more
Live(h, refs) == [o \in DOMAIN h \cap Range(refs) |-> h[o]]

---------------------------------------------------------------------------
\* Startup: RAGSystem(), initial_system and build_knowledge_base, up to the
\* first input() of run_interactive.  A step that raises ends the process
\* through main()'s "except Exception", except where the step's own code
\* catches the exception.

\* the chunks a run over these files, with every split succeeding, hands to
\* build_vector_index, as that run's save_index wrote them
SavedIndex(files) ==
    LET docs == load_documents(files)
        refs == [j \in DOMAIN files |-> j]
        st == SplitLoop([heap |-> docs, all_chunks |-> <<>>, map |-> <<>>,
                         n_objects |-> Len(files), n_uuids |-> 0],
                        refs, 1, {})
        h == number_chunks(st.heap, st.all_chunks)
    IN [j \in DOMAIN st.all_chunks |-> Prefixed(h[st.all_chunks[j]])]

\* the vector indexes an earlier run can have saved: build_vector_index
\* refuses an empty list of chunks
SavedIndexes ==
    {SavedIndex(files) : files \in InjSeqs(Files, MaxFiles)} \ {<<>>}

searchLocals == <<vector_docs, BM25_docs, top_k, filters, rrf_scores,
                  sorted_docs, search_op, search_outcome, search_result>>

resolveLocals == <<child_chunks, parent_docs, resolve_outcome>>

loopLocals == <<n_inputs, history, user_input, router_type, query,
                relevant_chunks, relevant_docs, answer, calls, llm_messages,
                query_error>>

dataVars == <<heap, created, n_objects, document_refs, chunk_refs,
              parent_child_map, n_uuids, split_failed>>

InitStartup ==
    /\ SearchIdle
    /\ ResolveIdle
    /\ RouterIdle
    /\ AskIdle
    /\ boot = "initial_system"
    /\ boot_failed = {}
    /\ heap = <<>>
    /\ created = <<>>
    /\ n_objects = 0
    /\ document_refs = <<>>
    /\ chunk_refs = <<>>
    /\ parent_child_map = <<>>
    /\ n_uuids = 0
    /\ split_failed = {}
    /\ vectorstore = <<>>
    /\ vector_retriever = FALSE
    /\ bm25_retriever = <<>>

\* the step at boot raised, nothing caught it: main() prints and returns
Fatal(what) ==
    /\ boot' = "fatal"
    /\ boot_failed' = boot_failed \cup {what}

\* RAGSystem() and initial_system(): the data path or the API key is
\* missing, or the three modules are made
InitialSystem ==
    /\ boot = "initial_system"
    /\ \/ Fatal("initial_system")
       \/ /\ boot' = "load_index"
          /\ UNCHANGED boot_failed
    /\ UNCHANGED <<dataVars, vectorstore, vector_retriever, bm25_retriever,
                   searchVars, resolveVars, routerVars, askVars>>

\* index_module.load_index(): set_up_embedding, the listing of the index
\* directory and FAISS.load_local can each raise; without a .faiss file
\* the result is None
LoadIndex ==
    /\ boot = "load_index"
    /\ \/ /\ \E what \in {"embedding", "load_index", "dense_index"} :
                Fatal(what)
          /\ UNCHANGED <<index_loaded, vectorstore>>
       \/ /\ boot' = "load_documents"
          /\ UNCHANGED <<boot_failed, index_loaded, vectorstore>>
       \/ /\ boot' = "load_documents"
          /\ index_loaded' = TRUE
          /\ \E saved \in SavedIndexes : vectorstore' = <<saved>>
          /\ UNCHANGED boot_failed
    /\ UNCHANGED <<dataVars, vector_retriever, bm25_retriever, searchLocals,
                   resolveVars, routerVars, askVars>>

\* data_module.load_documents(): a file that cannot be read raises;
\* otherwise one new Document per file, in the order rglob yields them
LoadDocuments ==
    /\ boot = "load_documents"
    /\ \/ /\ Fatal("load_documents")
          /\ UNCHANGED <<dataVars, documents>>
       \/ \E files \in InjSeqs(Files, MaxFiles) :
            LET docs == load_documents(files)
                refs == [j \in DOMAIN files |-> n_objects + j]
                new == [o \in Range(refs) |-> docs[o - n_objects]]
            IN /\ document_refs' = refs
               /\ heap' = Live(Update(heap, new), refs \o chunk_refs)
               /\ created' = Live(Update(created, new), refs \o chunk_refs)
               /\ n_objects' = n_objects + Len(files)
               /\ documents' = docs
               /\ boot' = "chunk_documents"
               /\ UNCHANGED <<boot_failed, chunk_refs, parent_child_map,
                              n_uuids, split_failed>>
    /\ UNCHANGED <<vectorstore, vector_retriever, bm25_retriever,
                   searchVars, resolveLocals, routerVars, askVars>>

\* data_module.chunk_documents(): ValueError without documents; otherwise
\* the split, where split_text raises for the documents in fails, and then
\* the numbering of the chunks
ChunkDocuments ==
    /\ boot = "chunk_documents"
    /\ IF document_refs = <<>>
       THEN /\ Fatal("chunk_documents")
            /\ UNCHANGED <<dataVars, documents>>
       ELSE \E fails \in SUBSET Range(document_refs) :
            LET st == markdown_header_split(fails)
                chunks == st.all_chunks
                held == document_refs \o chunks
            IN /\ heap' = Live(number_chunks(st.heap, chunks), held)
               /\ created' = Live(Update(st.heap, created), held)
               /\ n_objects' = st.n_objects
               /\ n_uuids' = st.n_uuids
               /\ parent_child_map' = st.map
               /\ chunk_refs' = chunks
               /\ split_failed' = fails
               /\ documents' = Deref(heap', document_refs)
               /\ boot' = IF index_loaded THEN "retrievers"
                          ELSE "set_up_embedding"
               /\ UNCHANGED <<boot_failed, document_refs>>
    /\ UNCHANGED <<vectorstore, vector_retriever, bm25_retriever,
                   searchVars, resolveLocals, routerVars, askVars>>

\* index_module.set_up_embedding() on the branch that builds the index
SetUpEmbedding ==
    /\ boot = "set_up_embedding"
    /\ \/ Fatal("embedding")
       \/ /\ boot' = "build_vector_index"
          /\ UNCHANGED boot_failed
    /\ UNCHANGED <<dataVars, vectorstore, vector_retriever, bm25_retriever,
                   searchVars, resolveVars, routerVars, askVars>>

\* index_module.build_vector_index(chunks): ValueError for an empty list;
\* otherwise every chunk's text is rewritten in place, and then
\* FAISS.from_documents embeds the chunks, or raises
BuildVectorIndex ==
    /\ boot = "build_vector_index"
    /\ IF chunk_refs = <<>>
       THEN /\ Fatal("dense_index")
            /\ UNCHANGED <<heap, documents, vectorstore>>
       ELSE /\ heap' = [o \in DOMAIN heap |->
                           IF o \in Range(chunk_refs) THEN Prefixed(heap[o])
                           ELSE heap[o]]
            /\ documents' = Deref(heap', document_refs)
            /\ \/ /\ Fatal("dense_index")
                  /\ UNCHANGED vectorstore
               \/ /\ vectorstore' = <<Deref(heap', chunk_refs)>>
                  /\ boot' = "save_index"
                  /\ UNCHANGED boot_failed
    /\ UNCHANGED <<created, n_objects, document_refs, chunk_refs,
                   parent_child_map, n_uuids, split_failed,
                   vector_retriever, bm25_retriever, searchVars,
                   resolveLocals, routerVars, askVars>>

\* index_module.save_index()
SaveIndex ==
    /\ boot = "save_index"
    /\ \/ Fatal("save_index")
       \/ /\ boot' = "retrievers"
          /\ UNCHANGED boot_failed
    /\ UNCHANGED <<dataVars, vectorstore, vector_retriever, bm25_retriever,
                   searchVars, resolveVars, routerVars, askVars>>

\* RetrievalOptimizationModule(vectorstore, chunks): _set_up_retrievers
\* catches what as_retriever and BM25Retriever.from_documents raise and
\* only prints it, and from_documents raises for an empty list of chunks.
\* build_knowledge_base returns and run_interactive enters its loop.
SetUpRetrievers ==
    /\ boot = "retrievers"
    /\ \E vec_ok \in BOOLEAN, bm25_ok \in BOOLEAN :
        /\ (chunk_refs = <<>>) => ~bm25_ok
        /\ vector_retriever' = vec_ok
        /\ bm25_retriever' = IF bm25_ok THEN <<Deref(heap, chunk_refs)>>
                             ELSE <<>>
        /\ boot_failed' = boot_failed
                          \cup (IF vec_ok THEN {} ELSE {"vector_retriever"})
                          \cup (IF bm25_ok THEN {} ELSE {"bm25_index"})
    /\ boot' = "serving"
    /\ pc' = "input"
    /\ UNCHANGED <<dataVars, vectorstore, searchVars, resolveVars,
                   routerVars, loopLocals>>

\* The retrieval of a query once the loop runs: hybrid_search reads the
\* two retriever attributes, and get_parent_document resolves what it
\* returned.
ServeQuery ==
    /\ boot = "serving"
    /\ search_op = "none"
    /\ search_op' = "hybrid_search"
    /\ IF ~vector_retriever \/ bm25_retriever = <<>>
       THEN /\ search_outcome' = "AttributeError"
            /\ UNCHANGED <<vector_docs, BM25_docs, top_k, rrf_scores,
                           sorted_docs, search_result, resolveLocals>>
       ELSE \E v \in InjSeqs(DOMAIN vectorstore[1], ServeHits),
               b \in InjSeqs(DOMAIN bm25_retriever[1], ServeHits) :
            LET vdocs == [j \in DOMAIN v |-> vectorstore[1][v[j]]]
                bdocs == [j \in DOMAIN b |-> bm25_retriever[1][b[j]]]
                chunks == hybrid_search(vdocs, bdocs, default_top_k)
            IN /\ vector_docs' = vdocs
               /\ BM25_docs' = bdocs
               /\ top_k' = default_top_k
               /\ rrf_scores' = RrfScores(vdocs, bdocs)
               /\ sorted_docs' = rrf_rerank(vdocs, bdocs)
               /\ search_result' = chunks
               /\ search_outcome' = "returned"
               /\ child_chunks' = chunks
               /\ parent_docs' = get_parent_document(documents, chunks)
               /\ resolve_outcome' = "returned"
    /\ UNCHANGED <<index_loaded, filters, documents, routerVars, askVars,
                   startupVars>>

NextStartup ==
    \/ InitialSystem
    \/ LoadIndex
    \/ LoadDocuments
    \/ ChunkDocuments
    \/ SetUpEmbedding
    \/ BuildVectorIndex
    \/ SaveIndex
    \/ SetUpRetrievers
    \/ ServeQuery

SpecStartup == InitStartup /\ [][NextStartup]_vars

---------------------------------------------------------------------------
\* Claims about loading, splitting and startup, properties of SpecStartup.

\* the fragments of self.chunks that carry the owner id of document ref
OwnedChunks(ref) ==
    {j \in DOMAIN chunk_refs :
        heap[chunk_refs[j]].metadata["parent_id"]
            = heap[ref].metadata["parent_id"]}

\* chunk_documents has just returned: no later step has run
ChunksJustReturned ==
    \/ boot = "set_up_embedding"
    \/ boot = "retrievers" /\ index_loaded

\* C12: every fragment of the list chunk_documents returned, split or
\* fallback, carries the id of a Document that the load_documents call
\* before it returned.
C12_OwnerLoaded ==
    \A j \in DOMAIN chunk_refs :
        \E d \in DOMAIN document_refs :
            heap[chunk_refs[j]].metadata["parent_id"]
                = created[document_refs[d]].metadata["parent_id"]

\* C12's case: of two loaded documents one was split into fragments and the
\* other one fell back to a single fragment.
C12_Witness ==
    /\ ChunksJustReturned
    /\ Len(document_refs) = 2
    /\ \E i, j \in DOMAIN chunk_refs :
        /\ heap[chunk_refs[i]].metadata["doc_type"] = "child"
        /\ chunk_refs[j] \in split_failed
        /\ heap[chunk_refs[i]].metadata["parent_id"]
               # heap[chunk_refs[j]].metadata["parent_id"]

\* C13: a document whose split fails yields exactly one fragment, with the
\* document's full text; the other documents are split as usual; and no
\* loaded document is left without a fragment.
C13_FallbackLaw ==
    ChunksJustReturned =>
        \A d \in DOMAIN document_refs :
            LET ref == document_refs[d]
                owned == OwnedChunks(ref)
                sections == split_text(created[ref].page_content)
            IN /\ ref \in split_failed =>
                    /\ Cardinality(owned) = 1
                    /\ \A j \in owned :
                        heap[chunk_refs[j]].page_content
                            = created[ref].page_content
               /\ ref \notin split_failed =>
                    /\ Cardinality(owned) = Len(sections)
                    /\ \A j \in owned :
                        \E i \in DOMAIN sections :
                            heap[chunk_refs[j]].page_content
                                = sections[i].page_content
               /\ owned # {}

\* C14: when the embedding model, the dense index or the BM25 index could
\* not be constructed, startup has ended in the fatal error and the loop
\* that accepts queries is not running.
C14_IndexFailureIsFatal ==
    (boot_failed \cap {"embedding", "dense_index", "bm25_index"} # {}) =>
        /\ boot = "fatal"
        /\ pc = "off"

\* C16: parent_child_map is the map from the chunk_id of each fragment of
\* self.chunks to that fragment's parent_id, and has no other key.
C16_MapIsFragmentMap ==
    /\ \A r \in Range(chunk_refs) :
        /\ heap[r].metadata["chunk_id"] \in DOMAIN parent_child_map
        /\ parent_child_map[heap[r].metadata["chunk_id"]]
               = heap[r].metadata["parent_id"]
    /\ \A k \in DOMAIN parent_child_map :
        \E r \in Range(chunk_refs) : heap[r].metadata["chunk_id"] = k

\* C17: a Document or fragment has the text and the metadata it was
\* created with, whatever ran after its creation.
C17_NoMutation ==
    \A o \in DOMAIN heap :
        /\ heap[o].page_content = created[o].page_content
        /\ heap[o].metadata = created[o].metadata

====
